---- MODULE Spec2Model ----
(***************************************************************************)
(* Real-time WebSocket subsystem of SentimentQuant.                        *)
(*                                                                         *)
(*   WebSocketManager   backend/app/websockets/manager.py                  *)
(*   endpoint loops     backend/app/api/v1/endpoints/websockets.py         *)
(*   ConnectionManager  backend/app/core/websocket_manager.py              *)
(*                                                                         *)
(* Every task is an asyncio coroutine on one event loop: the code between  *)
(* two awaits runs atomically, so each action below is the code from one   *)
(* suspension point to the next.                                           *)
(***************************************************************************)
EXTENDS Integers, Sequences, FiniteSets, TLC

\* ------------------------------------------------------------------ bounds
NumWS == 2
MaxBroadcasts == 1

\* clock readings per second: two calls less than 1/TicksPerSecond s apart may still
\* read two different values of time.time()
TicksPerSecond == 2
\* clock readings explored beyond one full window after a full burst
ExtraTicks == 10
\* how many calls in a run read a clock value that an earlier call has read
MaxSameReads == 1
\* the events of the bus: messages published, and failures of subscribe and get_message
MaxBusEvents == 2
\* the events of the bus while every path of handle_websocket is explored with it
BridgeBusEvents == 1
\* the websockets served while the clock runs
NumLoopWS == 1
\* the connect calls made for one websocket that has been accepted already
MaxReconnects == 1

WS == 1..NumWS
LoopWS == 1..NumLoopWS
None == "None"

\* ---------------------------------------------------------------- constants
\* keys of WebSocketManager.connections as built by __init__
ValidClientTypes == {"sentiment", "trading", "portfolio"}

\* the four endpoints that open a websocket_session, with the loop each runs
Endpoints ==
  { [client_type |-> "sentiment", topic |-> "AAPL", user_id |-> None, loop |-> "plain"],
    [client_type |-> "trading", topic |-> "AAPL", user_id |-> None, loop |-> "plain"],
    [client_type |-> "portfolio", topic |-> "user_portfolio", user_id |-> "u1", loop |-> "portfolio"],
    [client_type |-> "combined", topic |-> "AAPL", user_id |-> "u1", loop |-> "combined"] }

NoEndpoint == [client_type |-> None, topic |-> None, user_id |-> None, loop |-> None]

ClientTypes == {e.client_type : e \in Endpoints}
Topics == {e.topic : e \in Endpoints}

\* text frames a client can send, by what json.loads and event.get("type") make of them
Frames == {"bad_json", "non_object", "no_type", "type_ping", "type_unhashable"}
EventTypes == {"ping"}
Unhashable == "Unhashable"
\* the sentiment and trading loops only log the frame: one frame stands for all
FramesOf(loop) == IF loop = "portfolio" THEN Frames ELSE {"bad_json"}

\* ConnectionManager.__init__, line 17
max_requests_per_minute == 60
\* check_rate_limit, line 40: the window, in seconds
WindowSeconds == 60
WindowTicks == WindowSeconds * TicksPerSecond
\* the last clock reading explored
MaxTime == WindowTicks + max_requests_per_minute + ExtraTicks

\* the kinds of message a caller hands to broadcast: a dict, a str, bytes
Payloads == {<<"dict">>, <<"str">>, <<"bytes">>}

ClientIds == {"u1", "u2"}
\* the client whose calls the rate limiter is explored with
RLClients == {"u1"}

\* the symbols clients subscribe to, and the bus channel of each (line 53)
Symbols == {"AAPL", "MSFT"}
ChannelOf(symbol) == <<"sentiment_updates", symbol>>
\* line 71: channel.split(":")[1]
SymbolOf(channel) == channel[2]
Channels == {ChannelOf(sym) : sym \in Symbols}

\* text frames a client of handle_websocket can send: <<"bad_json">> is not JSON,
\* <<"non_object">> is JSON that is no object, <<"subscribe_no_symbol">> is
\* {"type": "subscribe"}, <<"other">> any other object, and SubFrame(S) is
\* {"type": "subscribe", "symbol": S}
SubFrame(sym) == <<"subscribe", sym>>
Disconnect == <<"disconnect">>
NoFrame == <<"None">>
NoChannel == <<"None">>

VARIABLES
  \* the clock time.time() reads, in ticks
  now,
  \* ConnectionManager.rate_limits: client_id -> the keys of its dict (every value is 1)
  rate_limits,
  result,             \* what the last check_rate_limit call of each client returned
  calledNow,          \* a call has read the current clock value
  sameReads,          \* calls so far that read a clock value read before
  accepted,           \* history: the times of the calls that returned true, oldest first
  \* ConnectionManager
  active_connections, \* client_id -> set of websockets (a defaultdict)
  redis_subscriptions,\* the channels flagged as subscribed
  hpc, hcl, hexit,    \* handle_websocket of each websocket: position, client_id, end
  hcs,                \* client_state of the websockets handle_websocket serves
  hin,                \* the frame the client has sent and handle_websocket has not read
  fwd,                \* channel -> the _forward_messages tasks started for it
  running,            \* the forwarding task that holds the event loop, or None
  bus,                \* messages the bus holds for the pubsub connection, oldest first
  nBusEvents,
  tasks,              \* channel -> number of _forward_messages tasks created
  opens,              \* channel -> number of bus subscriptions opened
  subscribed,         \* websocket -> the symbols it asked to subscribe to
  refusals,           \* websocket -> the rate limit refusals of its serve loop
  pollFailed,         \* channel -> get_message has raised in its forwarding task
  \* WebSocketManager
  connections,        \* client_type -> (topic -> set of websockets)
  connection_info,    \* websocket -> [client_type, topic, user_id]
  user_connections,   \* user_id -> set of websockets
  event_handlers,     \* the event types that have a handler
  \* the transport of each websocket (starlette WebSocket)
  client_state, application_state,
  inbox,              \* the frame the client has sent and the server has not yet received
  \* one session task per websocket
  pc, ep, exit,
  \* the task running WebSocketManager.broadcast
  bc, nBroadcasts,
  \* history
  live,               \* connect returned for w and disconnect(w) has not been called since
  opened,             \* connect returned for w at some time
  deregs,             \* number of disconnect calls that found w registered
  closes,             \* number of close() calls on w's transport
  discCloses,         \* number of close() calls made by disconnect
  discOnAbsent,       \* number of disconnect calls that found w not registered
  reconnects          \* number of connect calls made for w after its accept

wmVars == <<connections, connection_info, user_connections, event_handlers,
            client_state, application_state, inbox, pc, ep, exit, bc, nBroadcasts,
            live, opened, deregs, closes, discCloses, discOnAbsent, reconnects>>

rlVars == <<now, rate_limits, result, calledNow, sameReads, accepted>>

cmVars == <<active_connections, redis_subscriptions, hpc, hcl, hexit, hcs, hin, fwd,
            running, bus, nBusEvents, tasks, opens, subscribed, refusals, pollFailed>>

vars == <<wmVars, rlVars, cmVars>>

\* ------------------------------------------------------------------ helpers
EmptyMap == [x \in {} |-> {}]
Without(f, k) == [x \in DOMAIN f \ {k} |-> f[x]]
With(f, k, v) == [x \in DOMAIN f \cup {k} |-> IF x = k THEN v ELSE f[x]]

\* ---------------------------------------------------------- registry (pure)
\* connect, lines 55-59: create the topic's bucket if needed, add the websocket
ConnectionsAfterConnect(w, ct, topic) ==
  LET byTopic == connections[ct]
      bucket == IF topic \in DOMAIN byTopic THEN byTopic[topic] ELSE {}
  IN [connections EXCEPT ![ct] = With(byTopic, topic, bucket \cup {w})]

\* connect, lines 62-67
InfoAfterConnect(w, ct, topic, user) ==
  With(connection_info, w, [client_type |-> ct, topic |-> topic, user_id |-> user])

\* connect, lines 70-73
UsersAfterConnect(w, user) ==
  IF user # None
    THEN With(user_connections, user,
              (IF user \in DOMAIN user_connections THEN user_connections[user] ELSE {})
                \cup {w})
    ELSE user_connections

\* disconnect, line 79
Registered(w) == w \in DOMAIN connection_info

\* mutant: disconnect leaves the websocket in its bucket
ConnectionsKeepWebsocket(w) == connections

\* mutant: the emptied bucket is left in place
ConnectionsKeepEmptyBucket(w) ==
  LET info == connection_info[w]
      byTopic == connections[info.client_type]
  IN IF info.topic \in DOMAIN byTopic
       THEN [connections EXCEPT ![info.client_type] =
               [byTopic EXCEPT ![info.topic] = @ \ {w}]]
       ELSE connections

\* disconnect, lines 86-91: discard from the bucket, delete the bucket when empty
ConnectionsAfterDisconnect(w) ==
  LET info == connection_info[w]
      byTopic == connections[info.client_type]
  IN IF info.topic \in DOMAIN byTopic
       THEN LET rest == byTopic[info.topic] \ {w}
            IN [connections EXCEPT ![info.client_type] =
                  IF rest = {} THEN Without(byTopic, info.topic)
                               ELSE [byTopic EXCEPT ![info.topic] = rest]]
       ELSE connections

\* mutant: disconnect leaves the websocket in the set of its user
UsersKept(w) == user_connections

\* disconnect, lines 94-97
UsersAfterDisconnect(w) ==
  LET user == connection_info[w].user_id
  IN IF user # None /\ user \in DOMAIN user_connections
       THEN LET rest == user_connections[user] \ {w}
            IN IF rest = {} THEN Without(user_connections, user)
                            ELSE [user_connections EXCEPT ![user] = rest]
       ELSE user_connections

\* mutant: the entry of connection_info is not deleted
InfoKept(w) == connection_info

\* disconnect, line 100
InfoAfterDisconnect(w) == Without(connection_info, w)

\* mutant: the close of lines 103-104 dedented out of the `if` block of line 79
CloseNeededDedented(w, cs) == cs # "DISCONNECTED"

\* disconnect, lines 79 and 103: close() is called inside the `if websocket in
\* self.connection_info` block, when the client has not sent its disconnect
CloseNeeded(w, cs) == Registered(w) /\ cs # "DISCONNECTED"

\* disconnect(w) called when w's transport is in states cs (client) and as
\* (application), up to its only await (close): the registry as it leaves it, whether
\* close() was called, and how the call continues. close() sends websocket.close,
\* which raises RuntimeError once the application side has sent a close already;
\* otherwise the application side becomes DISCONNECTED before the send is awaited.
Disc(w, cs, as) ==
  LET reg == Registered(w)
      close == CloseNeeded(w, cs)
      raises == close /\ as = "DISCONNECTED"
  IN [conn |-> IF reg THEN ConnectionsAfterDisconnect(w) ELSE connections,
      info |-> IF reg THEN InfoAfterDisconnect(w) ELSE connection_info,
      users |-> IF reg THEN UsersAfterDisconnect(w) ELSE user_connections,
      reg |-> reg,
      as |-> IF close /\ ~raises THEN "DISCONNECTED" ELSE as,
      closeCalled |-> close,
      out |-> IF ~close THEN "returned" ELSE IF raises THEN "raised" ELSE "awaiting"]

\* the state a disconnect(w) call leaves, but for pc, exit and bc
ApplyDisc(w, cs, d, pre) ==
  /\ connections' = d.conn
  /\ connection_info' = d.info
  /\ user_connections' = d.users
  /\ client_state' = [client_state EXCEPT ![w] = cs]
  /\ application_state' = [application_state EXCEPT ![w] = d.as]
  /\ closes' = [closes EXCEPT ![w] = @ + pre + (IF d.closeCalled THEN 1 ELSE 0)]
  /\ discCloses' = [discCloses EXCEPT ![w] = @ + (IF d.closeCalled THEN 1 ELSE 0)]
  /\ deregs' = [deregs EXCEPT ![w] = @ + (IF d.reg THEN 1 ELSE 0)]
  /\ discOnAbsent' = [discOnAbsent EXCEPT ![w] = @ + (IF d.reg THEN 0 ELSE 1)]
  /\ live' = [live EXCEPT ![w] = FALSE]
  /\ UNCHANGED reconnects

\* ------------------------------------------------------------- event router
IsJson(f) == f # "bad_json"
IsDict(f) == f \in {"no_type", "type_ping", "type_unhashable"}
\* event.get("type"): None when the key is absent
EventTypeOf(f) ==
  CASE f = "type_ping" -> "ping"
    [] f = "type_unhashable" -> Unhashable
    [] OTHER -> None

\* process_event, lines 191-195, on the value json.loads returned. event.get raises
\* AttributeError on a value that is no dict, and `event_type in self.event_handlers`
\* raises TypeError when the type is a JSON array or object (unhashable).
RouteOutcome(f) ==
  IF ~IsDict(f) THEN "raise"
  ELSE IF EventTypeOf(f) = Unhashable THEN "raise"
  ELSE IF EventTypeOf(f) \in event_handlers THEN "handler"
  ELSE "dropped"

\* -------------------------------------------------------------------- Init
\* a _forward_messages task: not created; ready to poll get_message; suspended in a
\* send_text; or asleep after an exception (line 82). While it goes through
\* active_connections it keeps the message, the size of the dict when the iteration
\* began and the clients visited, and the same for the set of the current client;
\* alive tells that this set is still the one active_connections holds for the client.
\* gone is history: the websockets that had been deregistered when the message was got.
NoTask ==
  [pc |-> "none", msg |-> NoFrame, nkeys |-> 0, vkeys |-> {}, client |-> None,
   alive |-> FALSE, nset |-> 0, vset |-> {}, ws |-> 0, gone |-> {}]

\* no message
NoMessage == <<"None">>

\* the one call of broadcast or send_to_user in progress: the entry point called, its
\* arguments, the message as it goes on the wire, the copied set, the connections the
\* loop has yet to take, the one it is at, and those served or failed; gone is
\* history: the websockets that had been deregistered when the call began
IdleBroadcast ==
  [pc |-> "idle", call |-> None, client_type |-> None, topic |-> None, user_id |-> None,
   payload |-> NoMessage, wire |-> NoMessage, snapshot |-> {}, todo |-> {},
   cur |-> 0, delivered |-> {}, failed |-> {}, gone |-> {}]

Init ==
  /\ connections = [ct \in ValidClientTypes |-> EmptyMap]
  /\ connection_info = EmptyMap
  /\ user_connections = EmptyMap
  /\ event_handlers = {}
  /\ client_state = [w \in WS |-> "CONNECTING"]
  /\ application_state = [w \in WS |-> "CONNECTING"]
  /\ inbox = [w \in WS |-> None]
  /\ pc = [w \in WS |-> "idle"]
  /\ ep = [w \in WS |-> NoEndpoint]
  /\ exit = [w \in WS |-> None]
  /\ bc = IdleBroadcast
  /\ nBroadcasts = 0
  /\ live = [w \in WS |-> FALSE]
  /\ opened = [w \in WS |-> FALSE]
  /\ deregs = [w \in WS |-> 0]
  /\ closes = [w \in WS |-> 0]
  /\ discCloses = [w \in WS |-> 0]
  /\ discOnAbsent = [w \in WS |-> 0]
  /\ reconnects = [w \in WS |-> 0]
  /\ now = 0
  /\ rate_limits = EmptyMap
  /\ result = [c \in ClientIds |-> None]
  /\ calledNow = FALSE
  /\ sameReads = 0
  /\ accepted = [c \in ClientIds |-> <<>>]
  /\ active_connections = EmptyMap
  /\ redis_subscriptions = {}
  /\ hpc = [w \in WS |-> "idle"]
  /\ hcl = [w \in WS |-> None]
  /\ hexit = [w \in WS |-> None]
  /\ hin = [w \in WS |-> NoFrame]
  /\ fwd = [ch \in Channels |-> NoTask]
  /\ running = NoChannel
  /\ hcs = [w \in WS |-> "CONNECTING"]
  /\ bus = <<>>
  /\ nBusEvents = 0
  /\ tasks = [ch \in Channels |-> 0]
  /\ opens = [ch \in Channels |-> 0]
  /\ subscribed = [w \in WS |-> {}]
  /\ refusals = [w \in WS |-> 0]
  /\ pollFailed = [ch \in Channels |-> FALSE]

\* ------------------------------------------------- websocket_session (tasks)
\* What a step of w's session leaves unchanged when it touches neither the registry
\* nor the transport.
SessionFrame == UNCHANGED <<event_handlers, bc, nBroadcasts, rlVars, cmVars>>
RegistryUnchanged ==
  UNCHANGED <<connections, connection_info, user_connections, deregs, discCloses,
              discOnAbsent, live, reconnects>>

\* websocket_session, lines 42-43: the finally clause calls disconnect(w). `pre` close
\* calls were made earlier in the same step; `how` is how the session ends if
\* disconnect returns. An exception raised by close() propagates out of the session.
Finally(w, cs, as, pre, how) ==
  LET d == Disc(w, cs, as)
  IN /\ ApplyDisc(w, cs, d, pre)
     /\ pc' = [pc EXCEPT ![w] = IF d.out = "awaiting" THEN "disc_close" ELSE "done"]
     /\ exit' = [exit EXCEPT ![w] = IF d.out = "raised" THEN "raised" ELSE how]

\* websocket_session, lines 38-41: the generic handler closes the transport with 1011
\* unless the client has disconnected, then the finally clause runs. The handler
\* swallows the exception it handles.
ExceptionPath(w, cs, as) ==
  IF cs # "DISCONNECTED"
    THEN IF as = "DISCONNECTED"
           THEN Finally(w, cs, as, 1, "raised")
           ELSE /\ application_state' = [application_state EXCEPT ![w] = "DISCONNECTED"]
                /\ client_state' = [client_state EXCEPT ![w] = cs]
                /\ closes' = [closes EXCEPT ![w] = @ + 1]
                /\ pc' = [pc EXCEPT ![w] = "close1011"]
                /\ UNCHANGED exit
                /\ RegistryUnchanged
    ELSE Finally(w, cs, as, 0, "normal")

\* the endpoint's `while True` comes back to receive_text, which raises RuntimeError
\* unless the application side is CONNECTED
LoopBack(w) ==
  IF application_state[w] = "CONNECTED"
    THEN /\ pc' = [pc EXCEPT ![w] = "receive"]
         /\ UNCHANGED <<client_state, application_state, closes, exit>>
         /\ RegistryUnchanged
    ELSE ExceptionPath(w, client_state[w], application_state[w])

\* mutant: connect without the test of lines 48-49
InvalidClientTypeNever(ct) == FALSE

\* connect, line 48
InvalidClientType(ct) == ct \notin DOMAIN connections

\* an endpoint is entered for a new websocket: websocket_session calls connect, whose
\* first statement (lines 48-49) raises ValueError for a client type that is no key of
\* connections; otherwise connect awaits accept()
SessionStart(w, e) ==
  /\ pc[w] = "idle"
  /\ ep' = [ep EXCEPT ![w] = e]
  /\ IF InvalidClientType(e.client_type)
       THEN ExceptionPath(w, client_state[w], application_state[w])
       ELSE /\ pc' = [pc EXCEPT ![w] = "accept"]
            /\ UNCHANGED <<client_state, application_state, closes, exit>>
            /\ RegistryUnchanged
  /\ UNCHANGED <<inbox, opened>>
  /\ SessionFrame

\* accept() returns: connect registers the websocket (lines 55-73) and the endpoint
\* body starts its first receive_text
AcceptReturns(w) ==
  /\ pc[w] = "accept"
  /\ client_state' = [client_state EXCEPT ![w] = "CONNECTED"]
  /\ application_state' = [application_state EXCEPT ![w] = "CONNECTED"]
  /\ connections' = ConnectionsAfterConnect(w, ep[w].client_type, ep[w].topic)
  /\ connection_info' = InfoAfterConnect(w, ep[w].client_type, ep[w].topic, ep[w].user_id)
  /\ user_connections' = UsersAfterConnect(w, ep[w].user_id)
  /\ live' = [live EXCEPT ![w] = TRUE]
  /\ opened' = [opened EXCEPT ![w] = TRUE]
  /\ pc' = [pc EXCEPT ![w] = "receive"]
  /\ UNCHANGED <<inbox, ep, exit, deregs, closes, discCloses, discOnAbsent, reconnects>>
  /\ SessionFrame

\* accept() raises (the handshake fails)
AcceptRaises(w) ==
  /\ pc[w] = "accept"
  /\ ExceptionPath(w, client_state[w], application_state[w])
  /\ UNCHANGED <<inbox, ep, opened>>
  /\ SessionFrame

\* the client sends a text frame, or closes
ClientSend(w, f) ==
  /\ pc[w] = "receive"
  /\ client_state[w] = "CONNECTED"
  /\ inbox[w] = None
  /\ f \in FramesOf(ep[w].loop) \cup {"disconnect"}
  /\ inbox' = [inbox EXCEPT ![w] = f]
  /\ UNCHANGED <<connections, connection_info, user_connections, event_handlers,
                 client_state, application_state, pc, ep, exit, bc, nBroadcasts,
                 live, opened, deregs, closes, discCloses, discOnAbsent, reconnects,
                 rlVars, cmVars>>

\* receive_text raises WebSocketDisconnect: websocket_session logs it (lines 36-37) and
\* the finally clause runs
ReceiveDisconnect(w) ==
  /\ pc[w] = "receive"
  /\ inbox[w] = "disconnect"
  /\ inbox' = [inbox EXCEPT ![w] = None]
  /\ Finally(w, "DISCONNECTED", application_state[w], 0, "normal")
  /\ UNCHANGED <<ep, opened>>
  /\ SessionFrame

\* receive_text returns a frame. The sentiment and trading loops log it; the portfolio
\* loop (endpoints/websockets.py lines 82-91) parses it, drops it on JSONDecodeError and
\* hands anything else to process_event.
ReceiveFrame(w) ==
  /\ pc[w] = "receive"
  /\ inbox[w] \in Frames
  /\ inbox' = [inbox EXCEPT ![w] = None]
  /\ IF ep[w].loop = "portfolio" /\ IsJson(inbox[w])
       THEN CASE RouteOutcome(inbox[w]) = "raise" ->
                   ExceptionPath(w, client_state[w], application_state[w])
              [] RouteOutcome(inbox[w]) = "handler" ->
                   /\ pc' = [pc EXCEPT ![w] = "handler"]
                   /\ UNCHANGED <<client_state, application_state, closes, exit>>
                   /\ RegistryUnchanged
              [] OTHER -> LoopBack(w)
       ELSE LoopBack(w)
  /\ UNCHANGED <<ep, opened>>
  /\ SessionFrame

\* the handler process_event awaits (line 193) returns
HandlerReturns(w) ==
  /\ pc[w] = "handler"
  /\ LoopBack(w)
  /\ UNCHANGED <<inbox, ep, opened>>
  /\ SessionFrame

\* the handler raises: process_event has no try, and the portfolio loop catches only
\* JSONDecodeError, so the exception reaches websocket_session
HandlerRaises(w) ==
  /\ pc[w] = "handler"
  /\ ExceptionPath(w, client_state[w], application_state[w])
  /\ UNCHANGED <<inbox, ep, opened>>
  /\ SessionFrame

\* the close(1011) of the generic handler returns or raises; either way the finally
\* clause runs
Close1011Returns(w) ==
  /\ pc[w] = "close1011"
  /\ Finally(w, client_state[w], application_state[w], 0, "normal")
  /\ UNCHANGED <<inbox, ep, opened>>
  /\ SessionFrame

Close1011Raises(w) ==
  /\ pc[w] = "close1011"
  /\ Finally(w, client_state[w], application_state[w], 0, "raised")
  /\ UNCHANGED <<inbox, ep, opened>>
  /\ SessionFrame

\* the close() awaited by the finally clause's disconnect returns or raises
DiscCloseReturns(w) ==
  /\ pc[w] = "disc_close"
  /\ pc' = [pc EXCEPT ![w] = "done"]
  /\ UNCHANGED <<client_state, application_state, closes, exit, inbox, ep, opened>>
  /\ RegistryUnchanged
  /\ SessionFrame

DiscCloseRaises(w) ==
  /\ pc[w] = "disc_close"
  /\ pc' = [pc EXCEPT ![w] = "done"]
  /\ exit' = [exit EXCEPT ![w] = "raised"]
  /\ UNCHANGED <<client_state, application_state, closes, inbox, ep, opened>>
  /\ RegistryUnchanged
  /\ SessionFrame

\* the session's task is cancelled while suspended: CancelledError is no Exception, so
\* only the finally clause runs
Cancel(w) ==
  /\ pc[w] \in {"accept", "receive", "handler", "close1011", "disc_close"}
  /\ IF pc[w] = "disc_close"
       THEN /\ pc' = [pc EXCEPT ![w] = "done"]
            /\ exit' = [exit EXCEPT ![w] = "cancelled"]
            /\ UNCHANGED <<client_state, application_state, closes>>
            /\ RegistryUnchanged
       ELSE Finally(w, client_state[w], application_state[w], 0, "cancelled")
  /\ UNCHANGED <<inbox, ep, opened>>
  /\ SessionFrame

\* register_event_handler, line 187
RegisterEventHandler(t) ==
  /\ t \notin event_handlers
  /\ event_handlers' = event_handlers \cup {t}
  /\ UNCHANGED <<connections, connection_info, user_connections,
                 client_state, application_state, inbox, pc, ep, exit, bc, nBroadcasts,
                 live, opened, deregs, closes, discCloses, discOnAbsent, reconnects,
                 rlVars, cmVars>>


\* ------------------------------------------- connect for an accepted websocket
\* mutant: accept() returns whatever the state of the websocket
AcceptNeverRefused(as) == FALSE

\* line 52: accept() sends websocket.accept, which the websocket refuses with
\* RuntimeError once the application side has left CONNECTING
AcceptRefused(as) == as # "CONNECTING"

\* connect(w, client_type, topic, user_id) is called for a websocket that has been
\* accepted already, registered or not: line 49 or line 52 raises before the registry
\* is touched (lines 55-73)
RepeatConnect(w, e) ==
  /\ opened[w]
  /\ reconnects[w] < MaxReconnects
  /\ reconnects' = [reconnects EXCEPT ![w] = @ + 1]
  /\ IF InvalidClientType(e.client_type) \/ AcceptRefused(application_state[w])
       THEN UNCHANGED <<connections, connection_info, user_connections>>
       ELSE /\ connections' = ConnectionsAfterConnect(w, e.client_type, e.topic)
            /\ connection_info' = InfoAfterConnect(w, e.client_type, e.topic, e.user_id)
            /\ user_connections' = UsersAfterConnect(w, e.user_id)
  /\ UNCHANGED <<client_state, application_state, inbox, pc, ep, exit, live, opened,
                 deregs, closes, discCloses, discOnAbsent>>
  /\ SessionFrame

\* ---------------------------------------------------- WebSocketManager.broadcast
BroadcastFrame == UNCHANGED <<event_handlers, inbox, pc, ep, exit, opened, rlVars, cmVars>>

\* the websockets disconnect has been called for (lines 79-100 deregister at once)
Deregistered == {w \in WS : opened[w] /\ ~live[w]}

\* lines 114 and 152: isinstance(message, (str, bytes))
IsStrOrBytes(message) == message[1] \in {"str", "bytes"}

\* lines 114-120: what broadcast sends for the message it was given. A dict is written
\* <<"dict", type, topic or user_id, data, "timestamp">>
BroadcastMessage(ct, topic, message) ==
  IF IsStrOrBytes(message) THEN message
  ELSE <<"dict", ct, topic, message, "timestamp">>

\* lines 152-158: what send_to_user sends for the message it was given
UserMessage(user_id, message) ==
  IF IsStrOrBytes(message) THEN message
  ELSE <<"dict", "user_message", user_id, message, "timestamp">>

\* lines 178-182: the dict send_portfolio_update builds and hands to send_to_user
PortfolioUpdate(data) == <<"dict", "portfolio_update", None, data, "timestamp">>

\* message["type"] and message["data"] of a message on the wire
TypeOf(message) == IF Len(message) = 5 THEN message[2] ELSE None
DataOf(message) == IF Len(message) = 5 THEN message[4] ELSE NoMessage

\* lines 126 and 164: the for loop takes a connection of the copied set, in the order
\* the set yields them, and the coroutine returns when there is none left
Picks(b) ==
  IF b.todo = {} THEN {[b EXCEPT !.pc = "returned", !.cur = 0]}
  ELSE {[b EXCEPT !.pc = "sending", !.cur = w] : w \in b.todo}

\* the loop is done with connection w
BroadcastNext(b, w) == Picks([b EXCEPT !.todo = @ \ {w}])

\* broadcast is called (by a publisher outside the manager). Lines 110-111 return when
\* the bucket does not exist; line 123 copies the bucket.
BroadcastStart(ct, topic, message) ==
  /\ bc.pc \in {"idle", "returned", "raised"}
  /\ nBroadcasts < MaxBroadcasts
  /\ nBroadcasts' = nBroadcasts + 1
  /\ LET b == [IdleBroadcast EXCEPT !.call = "broadcast", !.client_type = ct,
                                    !.topic = topic, !.payload = message,
                                    !.gone = Deregistered]
     IN IF ct \notin DOMAIN connections \/ topic \notin DOMAIN connections[ct]
          THEN bc' = [b EXCEPT !.pc = "returned"]
          ELSE \E b2 \in Picks([b EXCEPT !.wire = BroadcastMessage(ct, topic, message),
                                         !.snapshot = connections[ct][topic],
                                         !.todo = connections[ct][topic]]) : bc' = b2
  /\ UNCHANGED <<client_state, application_state, closes>>
  /\ RegistryUnchanged
  /\ BroadcastFrame

\* send_to_user, lines 148-161: returns when the user has no connection, else copies
\* the user's set and goes through it as broadcast does
SendToUserStart(call, user_id, payload, message) ==
  /\ bc.pc \in {"idle", "returned", "raised"}
  /\ nBroadcasts < MaxBroadcasts
  /\ nBroadcasts' = nBroadcasts + 1
  /\ LET b == [IdleBroadcast EXCEPT !.call = call, !.user_id = user_id,
                                    !.payload = payload, !.gone = Deregistered]
     IN IF user_id \notin DOMAIN user_connections
          THEN bc' = [b EXCEPT !.pc = "returned"]
          ELSE \E b2 \in Picks([b EXCEPT !.wire = UserMessage(user_id, message),
                                         !.snapshot = user_connections[user_id],
                                         !.todo = user_connections[user_id]]) : bc' = b2
  /\ UNCHANGED <<client_state, application_state, closes>>
  /\ RegistryUnchanged
  /\ BroadcastFrame

\* send_portfolio_update, lines 176-183
SendPortfolioUpdate(user_id, data) ==
  SendToUserStart("send_portfolio_update", user_id, data, PortfolioUpdate(data))

\* lines 127-133 and 165-171: the send to the current connection succeeds
BroadcastSendOK(w) ==
  /\ bc.pc = "sending"
  /\ w = bc.cur
  /\ application_state[w] = "CONNECTED"
  /\ \E b2 \in BroadcastNext([bc EXCEPT !.delivered = @ \cup {w}], w) : bc' = b2
  /\ UNCHANGED <<client_state, application_state, closes, nBroadcasts>>
  /\ RegistryUnchanged
  /\ BroadcastFrame

\* lines 134-136 and 172-174: the send raises (always, once the application side has
\* sent a close; at any time, when the peer is gone) and the handler awaits
\* disconnect(w), whose close() can raise in turn: nothing in the coroutine catches that
BroadcastSendRaises(w) ==
  /\ bc.pc = "sending"
  /\ w = bc.cur
  /\ LET d == Disc(w, client_state[w], application_state[w])
         b == [bc EXCEPT !.failed = @ \cup {w}]
     IN /\ ApplyDisc(w, client_state[w], d, 0)
        /\ CASE d.out = "returned" -> \E b2 \in BroadcastNext(b, w) : bc' = b2
             [] d.out = "raised" -> bc' = [b EXCEPT !.pc = "raised"]
             [] OTHER -> bc' = [b EXCEPT !.pc = "closing"]
  /\ UNCHANGED nBroadcasts
  /\ BroadcastFrame

\* the close() awaited by disconnect (line 104) inside the handler returns
BroadcastCloseReturns ==
  /\ bc.pc = "closing"
  /\ \E b2 \in BroadcastNext(bc, bc.cur) : bc' = b2
  /\ UNCHANGED <<client_state, application_state, closes, nBroadcasts>>
  /\ RegistryUnchanged
  /\ BroadcastFrame

\* ... or raises, which ends the coroutine with the connections left in todo unserved
BroadcastCloseRaises ==
  /\ bc.pc = "closing"
  /\ bc' = [bc EXCEPT !.pc = "raised"]
  /\ UNCHANGED <<client_state, application_state, closes, nBroadcasts>>
  /\ RegistryUnchanged
  /\ BroadcastFrame

\* ------------------------------------------------------------ specification
NextWM ==
  \/ \E w \in WS, e \in Endpoints : SessionStart(w, e)
  \/ \E w \in WS : AcceptReturns(w)
  \/ \E w \in WS : AcceptRaises(w)
  \/ \E w \in WS, f \in Frames \cup {"disconnect"} : ClientSend(w, f)
  \/ \E w \in WS : ReceiveDisconnect(w)
  \/ \E w \in WS : ReceiveFrame(w)
  \/ \E w \in WS : HandlerReturns(w)
  \/ \E w \in WS : HandlerRaises(w)
  \/ \E w \in WS : Close1011Returns(w)
  \/ \E w \in WS : Close1011Raises(w)
  \/ \E w \in WS : DiscCloseReturns(w)
  \/ \E w \in WS : DiscCloseRaises(w)
  \/ \E w \in WS : Cancel(w)
  \/ \E t \in EventTypes : RegisterEventHandler(t)
  \/ \E e \in Endpoints, m \in Payloads : BroadcastStart(e.client_type, e.topic, m)
  \/ \E u \in ClientIds : SendPortfolioUpdate(u, <<"dict">>)
  \/ \E w \in WS : BroadcastSendOK(w)
  \/ \E w \in WS : BroadcastSendRaises(w)
  \/ BroadcastCloseReturns
  \/ BroadcastCloseRaises

SpecWM == Init /\ [][NextWM]_vars

\* connect and disconnect called in any order: by the sessions, and connect once
\* more for a websocket that has been accepted
NextAPI ==
  \/ \E w \in WS, e \in Endpoints : SessionStart(w, e)
  \/ \E w \in WS : AcceptReturns(w)
  \/ \E w \in WS : AcceptRaises(w)
  \/ \E w \in WS, e \in Endpoints : RepeatConnect(w, e)
  \/ \E w \in WS : ClientSend(w, "disconnect")
  \/ \E w \in WS : ReceiveDisconnect(w)
  \/ \E w \in WS : DiscCloseReturns(w)
  \/ \E w \in WS : DiscCloseRaises(w)
  \/ \E w \in WS : Cancel(w)

SpecAPI == Init /\ [][NextAPI]_vars

\* ------------------------------------------------- a consumer that does not read
\* the connection whose peer stops reading: the send awaited for it at line 128
\* never completes
SlowWS == 1

\* connections are opened and messages dispatched to them
NextSlow ==
  \/ \E w \in WS, e \in Endpoints : SessionStart(w, e)
  \/ \E w \in WS : AcceptReturns(w)
  \/ \E w \in WS : AcceptRaises(w)
  \/ \E e \in Endpoints, m \in Payloads : BroadcastStart(e.client_type, e.topic, m)
  \/ \E u \in ClientIds : SendPortfolioUpdate(u, <<"dict">>)
  \/ \E w \in WS : BroadcastSendOK(w)
  \/ \E w \in WS : BroadcastSendRaises(w)
  \/ BroadcastCloseReturns
  \/ BroadcastCloseRaises

\* every awaited send or close completes, by returning or by raising, and the event
\* loop then resumes the coroutine; but for the send to SlowWS
FairSlow ==
  /\ \A w \in WS \ {SlowWS} : WF_vars(BroadcastSendOK(w) \/ BroadcastSendRaises(w))
  /\ WF_vars(BroadcastCloseReturns \/ BroadcastCloseRaises)

SpecSlow == Init /\ [][NextSlow]_vars /\ FairSlow

\* ------------------------------------------ ConnectionManager.check_rate_limit
\* line 47: the key is str(now); line 40 reads it back with float(ts). str of a float is
\* its shortest repr, which float() reads back exactly: two calls make the same key
\* exactly when they read the same clock value.
StrOf(t) == <<"ts", t>>
FloatOf(k) == k[2]

\* line 36: rate_limits is a defaultdict(dict)
LimitsOf(c) == IF c \in DOMAIN rate_limits THEN rate_limits[c] ELSE {}

\* lines 39-40: the timestamps younger than the window
FreshKeys(limits, t) == {k \in limits : t - FloatOf(k) < WindowTicks}

\* mutant: the comparison of line 43 written `>` instead of `>=`
AllowedOffByOne(limits, t) == ~(Cardinality(FreshKeys(limits, t)) > max_requests_per_minute)

\* lines 43-44: sum(client_limits.values()) is the number of keys, each value being 1
Allowed(limits, t) == ~(Cardinality(FreshKeys(limits, t)) >= max_requests_per_minute)

\* lines 47-48: the new key is added to the filtered dict, which is stored; a refused
\* call stores nothing
LimitsAfter(limits, t) ==
  IF Allowed(limits, t) THEN FreshKeys(limits, t) \cup {StrOf(t)} ELSE limits

SeqFilter(q, t) == SelectSeq(q, LAMBDA x : t - x < WindowTicks)

\* check_rate_limit(c), lines 35-49, called when the clock reads `now`
CheckRateLimit(c) ==
  /\ result' = [result EXCEPT ![c] = Allowed(LimitsOf(c), now)]
  /\ rate_limits' = With(rate_limits, c, LimitsAfter(LimitsOf(c), now))
  /\ calledNow' = TRUE

\* a caller of check_rate_limit that keeps the times of the calls it was granted. At
\* most MaxSameReads of its calls read a clock value that a call has read before.
RLCall(c) ==
  /\ calledNow => sameReads < MaxSameReads
  /\ sameReads' = IF calledNow THEN sameReads + 1 ELSE sameReads
  /\ CheckRateLimit(c)
  /\ accepted' = [accepted EXCEPT ![c] =
                    IF Allowed(LimitsOf(c), now)
                      THEN Append(SeqFilter(@, now), now) ELSE @]
  /\ UNCHANGED <<now, wmVars, cmVars>>

\* the clock moves on to its next reading after a call, or a whole window passes
RLTick ==
  /\ calledNow
  /\ now + 1 <= MaxTime
  /\ now' = now + 1
  /\ calledNow' = FALSE
  /\ UNCHANGED <<rate_limits, result, sameReads, accepted, wmVars, cmVars>>

RLIdle ==
  /\ \E c \in DOMAIN rate_limits : ~Allowed(LimitsOf(c), now)
  /\ now + WindowTicks <= MaxTime
  /\ now' = now + WindowTicks
  /\ calledNow' = FALSE
  /\ UNCHANGED <<rate_limits, result, sameReads, accepted, wmVars, cmVars>>

NextRL ==
  \/ \E c \in RLClients : RLCall(c)
  \/ RLTick
  \/ RLIdle

SpecRL == Init /\ [][NextRL]_vars

\* ------------------------------------------ ConnectionManager.handle_websocket
BucketOf(c) == IF c \in DOMAIN active_connections THEN active_connections[c] ELSE {}

CMRegistered(w, c) == w \in BucketOf(c)

\* connect, line 23: the defaultdict creates the bucket of a new client_id
ActiveAfterConnect(w, c) == With(active_connections, c, BucketOf(c) \cup {w})

\* disconnect, lines 28-30: remove raises KeyError for a websocket that is not in the
\* bucket, after the defaultdict has created the bucket of an unknown client_id
ActiveAfterDisconnect(w, c) ==
  IF CMRegistered(w, c)
    THEN IF BucketOf(c) = {w}
           THEN Without(active_connections, c)
           ELSE With(active_connections, c, BucketOf(c) \ {w})
    ELSE With(active_connections, c, BucketOf(c))

\* the forwarding tasks that iterate over the bucket of client c lose it when disconnect
\* deletes the bucket (line 30): the set they hold is then empty and in no dict
FwdAfterDisconnect(w, c) ==
  [ch \in Channels |->
     IF fwd[ch].client = c /\ BucketOf(c) = {w}
       THEN [fwd[ch] EXCEPT !.alive = FALSE] ELSE fwd[ch]]

\* disconnect(w, c) called by an except clause: it returns, or its KeyError leaves the
\* coroutine that called it
Disconnect_(w, c) ==
  /\ active_connections' = ActiveAfterDisconnect(w, c)
  /\ fwd' = FwdAfterDisconnect(w, c)

\* the client has gone: it has sent its close frame, or the server has read it
Gone(w) == hin[w] = Disconnect \/ hcs[w] = "DISCONNECTED" \/ hexit[w] # None

\* mutant: the serve loop goes on to receive whatever check_rate_limit returned
LoopTopIgnoresLimit(allowed, cs) ==
  IF cs = "DISCONNECTED" THEN "err_send" ELSE "receive"

\* lines 101-111: a refused request sends the rate limit frame; a granted one calls
\* receive_text, which raises RuntimeError once the disconnect message has been read,
\* and line 130 catches that
LoopTopTarget(allowed, cs) ==
  IF ~allowed THEN "rl_send"
  ELSE IF cs = "DISCONNECTED" THEN "err_send" ELSE "receive"

\* the top of the `while True` of line 99, run by w's handle_websocket whose
\* websocket has client_state cs
LoopTop(w, cs) ==
  /\ CheckRateLimit(hcl[w])
  /\ hpc' = [hpc EXCEPT ![w] = LoopTopTarget(Allowed(LimitsOf(hcl[w]), now), cs)]
  /\ refusals' = [refusals EXCEPT ![w] =
                    IF Allowed(LimitsOf(hcl[w]), now) THEN @ ELSE 1]
  /\ UNCHANGED <<now, sameReads, accepted>>

\* what a step of handle_websocket leaves unchanged
HFrame == UNCHANGED <<wmVars, hcl, running, bus, pollFailed>>
NoBusEvent == UNCHANGED nBusEvents
NoSubscribe == UNCHANGED <<redis_subscriptions, tasks, opens, subscribed>>
NoRateCheck == UNCHANGED <<rlVars, refusals>>

\* the endpoint (api/endpoints/websocket.py line 22) calls handle_websocket(w, c),
\* which awaits connect and so accept()
HStart(w, c) ==
  /\ running = NoChannel
  /\ hpc[w] = "idle"
  /\ hpc' = [hpc EXCEPT ![w] = "accept"]
  /\ hcl' = [hcl EXCEPT ![w] = c]
  /\ UNCHANGED <<active_connections, fwd, hexit, hcs, hin>>
  /\ UNCHANGED <<wmVars, running, bus, nBusEvents, pollFailed>>
  /\ NoSubscribe /\ NoRateCheck

\* accept() returns: connect registers the websocket and the loop starts
HAcceptReturns(w) ==
  /\ running = NoChannel
  /\ hpc[w] = "accept"
  /\ hcs' = [hcs EXCEPT ![w] = "CONNECTED"]
  /\ active_connections' = ActiveAfterConnect(w, hcl[w])
  /\ LoopTop(w, "CONNECTED")
  /\ UNCHANGED <<fwd, hexit, hin>>
  /\ HFrame /\ NoBusEvent /\ NoSubscribe

\* accept() raises: line 97 is outside the try, so the exception reaches the endpoint,
\* which closes the websocket (lines 25-30)
HAcceptRaises(w) ==
  /\ running = NoChannel
  /\ hpc[w] = "accept"
  /\ hpc' = [hpc EXCEPT ![w] = "done"]
  /\ hexit' = [hexit EXCEPT ![w] = "raised"]
  /\ UNCHANGED <<active_connections, fwd, hcs, hin>>
  /\ HFrame /\ NoBusEvent /\ NoSubscribe /\ NoRateCheck

\* the client sends a text frame, or closes
HClientSend(w, f) ==
  /\ hpc[w] \notin {"idle", "accept", "done"}
  /\ hcs[w] = "CONNECTED"
  /\ hin[w] = NoFrame
  /\ hin' = [hin EXCEPT ![w] = f]
  /\ UNCHANGED <<active_connections, fwd, hpc, hexit, hcs>>
  /\ HFrame /\ NoBusEvent /\ NoSubscribe /\ NoRateCheck

\* mutant: subscribe_to_symbol without the test of line 56
SubscribeAlways(ch) == TRUE

\* subscribe_to_symbol, line 56
SubscribeNeeded(ch) == ch \notin redis_subscriptions

\* subscribe_to_symbol(w, c, symbol), lines 53-61, when redis_manager.subscribe
\* returns: the bus subscription is opened, the channel is flagged and a task running
\* _forward_messages(channel) is created. The coroutine has no await.
SubscribeToSymbol(w, sym) ==
  LET ch == ChannelOf(sym)
  IN /\ subscribed' = [subscribed EXCEPT ![w] = @ \cup {sym}]
     /\ IF SubscribeNeeded(ch)
          THEN /\ opens' = [opens EXCEPT ![ch] = @ + 1]
               /\ redis_subscriptions' = redis_subscriptions \cup {ch}
               /\ tasks' = [tasks EXCEPT ![ch] = @ + 1]
               /\ fwd' = [fwd EXCEPT ![ch] = [NoTask EXCEPT !.pc = "ready"]]
          ELSE UNCHANGED <<opens, redis_subscriptions, tasks, fwd>>

\* the frames the loop answers nothing to (lines 115-117)
NoReplyFrames == {<<"other">>, <<"subscribe_no_symbol">>}

\* receive_text returns a frame or raises WebSocketDisconnect (lines 111-135).
\* WebSocketDisconnect is no JSONDecodeError, so line 130 catches it, as it catches
\* the AttributeError of message.get on JSON that is no object.
HReceive(w) ==
  /\ running = NoChannel
  /\ hpc[w] = "receive"
  /\ hin[w] # NoFrame
  /\ hin' = [hin EXCEPT ![w] = NoFrame]
  /\ hcs' = [hcs EXCEPT ![w] = IF hin[w] = Disconnect THEN "DISCONNECTED" ELSE @]
  /\ IF hin[w] \in NoReplyFrames
       THEN /\ LoopTop(w, hcs[w])
            /\ NoSubscribe
            /\ UNCHANGED fwd
       ELSE /\ NoRateCheck
            /\ IF hin[w] \in {SubFrame(sym) : sym \in Symbols}
                 THEN /\ SubscribeToSymbol(w, hin[w][2])
                      /\ hpc' = [hpc EXCEPT ![w] = "ack_send"]
                 ELSE /\ NoSubscribe
                      /\ UNCHANGED fwd
                      /\ hpc' = [hpc EXCEPT ![w] =
                                   IF hin[w] = <<"bad_json">> THEN "invalid_send"
                                   ELSE "err_send"]
  /\ UNCHANGED <<active_connections, hexit>>
  /\ HFrame /\ NoBusEvent

\* receive_text returns a subscribe frame and redis_manager.subscribe raises
\* (redis_manager.py lines 66-68): nothing is flagged, line 130 catches the error
HReceiveSubscribeFails(w) ==
  /\ running = NoChannel
  /\ hpc[w] = "receive"
  /\ \E sym \in Symbols :
       /\ hin[w] = SubFrame(sym)
       /\ SubscribeNeeded(ChannelOf(sym))
       /\ subscribed' = [subscribed EXCEPT ![w] = @ \cup {sym}]
  /\ nBusEvents < MaxBusEvents
  /\ nBusEvents' = nBusEvents + 1
  /\ hin' = [hin EXCEPT ![w] = NoFrame]
  /\ hpc' = [hpc EXCEPT ![w] = "err_send"]
  /\ UNCHANGED <<active_connections, fwd, hexit, hcs, redis_subscriptions, tasks, opens>>
  /\ HFrame /\ NoRateCheck

\* the send_json of line 119, 126 or 132 returns: the loop comes back to its top
HSendReturns(w) ==
  /\ running = NoChannel
  /\ hpc[w] \in {"ack_send", "invalid_send", "err_send"}
  /\ LoopTop(w, hcs[w])
  /\ UNCHANGED <<active_connections, fwd, hexit, hcs, hin>>
  /\ HFrame /\ NoBusEvent /\ NoSubscribe

\* handle_websocket leaves its loop through an except clause of lines 137-141
HDisconnects(w) ==
  /\ Disconnect_(w, hcl[w])
  /\ hpc' = [hpc EXCEPT ![w] = "done"]
  /\ hexit' = [hexit EXCEPT ![w] = IF CMRegistered(w, hcl[w]) THEN "returned" ELSE "raised"]

\* a send_json raises. Line 119 is inside the inner try, so line 130 catches the
\* exception and sends the error frame; lines 126 and 132 are in except clauses, so
\* the exception leaves the loop.
HSendRaises(w) ==
  /\ running = NoChannel
  /\ hpc[w] \in {"ack_send", "invalid_send", "err_send"}
  /\ Gone(w)
  /\ IF hpc[w] = "ack_send"
       THEN /\ hpc' = [hpc EXCEPT ![w] = "err_send"]
            /\ UNCHANGED <<active_connections, fwd, hexit>>
       ELSE HDisconnects(w)
  /\ UNCHANGED <<hcs, hin>>
  /\ HFrame /\ NoBusEvent /\ NoSubscribe /\ NoRateCheck

\* the send_json of line 102 returns: the loop sleeps (line 106)
HRateLimitSendReturns(w) ==
  /\ running = NoChannel
  /\ hpc[w] = "rl_send"
  /\ hpc' = [hpc EXCEPT ![w] = "rl_sleep"]
  /\ UNCHANGED <<active_connections, fwd, hexit, hcs, hin>>
  /\ HFrame /\ NoBusEvent /\ NoSubscribe /\ NoRateCheck

HRateLimitSendRaises(w) ==
  /\ running = NoChannel
  /\ hpc[w] = "rl_send"
  /\ Gone(w)
  /\ HDisconnects(w)
  /\ UNCHANGED <<hcs, hin>>
  /\ HFrame /\ NoBusEvent /\ NoSubscribe /\ NoRateCheck

\* the sleep of line 106 is over (asyncio times it with the loop's monotonic clock,
\* not with time.time()): `continue` comes back to the top of the loop
HSleepReturns(w) ==
  /\ running = NoChannel
  /\ hpc[w] = "rl_sleep"
  /\ LoopTop(w, hcs[w])
  /\ UNCHANGED <<active_connections, fwd, hexit, hcs, hin>>
  /\ HFrame /\ NoBusEvent /\ NoSubscribe

\* the task serving w is cancelled while suspended: CancelledError is no Exception, no
\* except clause of handle_websocket runs and there is no finally
HCancel(w) ==
  /\ running = NoChannel
  /\ hpc[w] \in {"accept", "receive", "ack_send", "invalid_send", "err_send",
                 "rl_send", "rl_sleep"}
  /\ hpc' = [hpc EXCEPT ![w] = "done"]
  /\ hexit' = [hexit EXCEPT ![w] = "cancelled"]
  /\ UNCHANGED <<active_connections, fwd, hcs, hin>>
  /\ HFrame /\ NoBusEvent /\ NoSubscribe /\ NoRateCheck

\* the frames clients send while the rate limit is explored
LoopFrames == {<<"bad_json">>, <<"non_object">>, <<"subscribe_no_symbol">>, <<"other">>}

\* handle_websocket serving the websockets of one client while the clock runs
NextLoop ==
  \/ \E w \in LoopWS : \E c \in RLClients : HStart(w, c)
  \/ \E w \in LoopWS : HAcceptReturns(w)
  \/ \E w \in LoopWS : HAcceptRaises(w)
  \/ \E w \in LoopWS : \E f \in LoopFrames \cup {Disconnect} : HClientSend(w, f)
  \/ \E w \in LoopWS : HReceive(w)
  \/ \E w \in LoopWS : HSendReturns(w)
  \/ \E w \in LoopWS : HSendRaises(w)
  \/ \E w \in LoopWS : HRateLimitSendReturns(w)
  \/ \E w \in LoopWS : HRateLimitSendRaises(w)
  \/ \E w \in LoopWS : HSleepReturns(w)
  \/ \E w \in LoopWS : HCancel(w)
  \/ RLTick
  \/ RLIdle

SpecLoop == Init /\ [][NextLoop]_vars

\* ------------------------------------------ ConnectionManager._forward_messages
Ready == [NoTask EXCEPT !.pc = "ready"]
\* mutant: _forward_messages without the except clause of line 80
TaskEnded == NoTask
Backoff == [NoTask EXCEPT !.pc = "backoff"]

\* the websockets that connect has registered (line 23) and that are registered no more
CMDeregistered == {w \in WS : hcs[w] # "CONNECTING" /\ ~CMRegistered(w, hcl[w])}

\* the set `connections` of line 72 as the task that iterates over it sees it
CurrentSet(f, ac) == IF f.alive /\ f.client \in DOMAIN ac THEN ac[f.client] ELSE {}

\* lines 72-73: the for loops move on over the live dict ac and its live sets, and
\* the task comes to its next send_text, back to get_message when both loops are
\* over, or to the sleep of line 82 when an iterator finds that its dict or set has
\* changed size (RuntimeError, caught by line 80). The order of a set is that of the
\* hashes of its members, which is any order.
RECURSIVE FwdNext(_, _)
FwdNext(f, ac) ==
  IF f.client # None
    THEN IF Cardinality(CurrentSet(f, ac)) # f.nset
           THEN {Backoff}
           ELSE IF CurrentSet(f, ac) \ f.vset # {}
                  THEN {[f EXCEPT !.pc = "sending", !.ws = w, !.vset = @ \cup {w}] :
                          w \in CurrentSet(f, ac) \ f.vset}
                  ELSE FwdNext([f EXCEPT !.client = None], ac)
    ELSE IF Cardinality(DOMAIN ac) # f.nkeys
           THEN {Backoff}
           ELSE IF DOMAIN ac \ f.vkeys = {}
                  THEN {Ready}
                  ELSE UNION {FwdNext([f EXCEPT !.client = c, !.vkeys = @ \cup {c},
                                                !.alive = TRUE, !.vset = {},
                                                !.nset = Cardinality(ac[c])], ac) :
                                c \in DOMAIN ac \ f.vkeys}

\* the task of channel ch goes on as f2; a task that comes back to get_message has
\* not awaited and keeps the event loop
FwdBecomes(ch, f2, others) ==
  /\ fwd' = [others EXCEPT ![ch] = f2]
  /\ running' = IF f2.pc = "ready" THEN ch ELSE NoChannel

FwdFrame == UNCHANGED <<wmVars, rlVars, redis_subscriptions, hpc, hcl, hexit, hcs, hin,
                        tasks, opens, subscribed, refusals>>

\* a publisher (tasks/sentiment_tasks.py line 62) publishes on a channel; the bus
\* delivers to the one pubsub connection when it is subscribed to the channel
Publish(ch) ==
  /\ nBusEvents < MaxBusEvents
  /\ opens[ch] > 0
  /\ nBusEvents' = nBusEvents + 1
  /\ bus' = Append(bus, ch)
  /\ UNCHANGED <<wmVars, rlVars, active_connections, redis_subscriptions, hpc, hcl, hexit,
                 hcs, hin, fwd, running, tasks, opens, subscribed, refusals, pollFailed>>

\* a message whose payload is no JSON text, as the bus delivers it on channel ch
Malformed(ch) == ch \o <<"not_json">>
PayloadDecodes(msg) == Len(msg) = 2

\* some client of the bus publishes a payload that is no JSON text
PublishMalformed(ch) ==
  /\ nBusEvents < MaxBusEvents
  /\ opens[ch] > 0
  /\ nBusEvents' = nBusEvents + 1
  /\ bus' = Append(bus, Malformed(ch))
  /\ UNCHANGED <<wmVars, rlVars, active_connections, redis_subscriptions, hpc, hcl, hexit,
                 hcs, hin, fwd, running, tasks, opens, subscribed, refusals, pollFailed>>

\* lines 65-73: the task of channel ch calls get_message, which blocks the thread for
\* up to a second and returns the message at the head of the shared pubsub
\* connection, of whatever channel, or none. With a message the task starts to go
\* through active_connections; with none it calls get_message again without an await.
FwdPoll(ch) ==
  /\ running \in {NoChannel, ch}
  /\ fwd[ch].pc = "ready"
  /\ IF bus = <<>>
       THEN /\ running # ch
            /\ running' = ch
            /\ UNCHANGED <<fwd, bus>>
       ELSE /\ bus' = Tail(bus)
            /\ \E f2 \in FwdNext([Ready EXCEPT !.msg = Head(bus),
                                               !.nkeys = Cardinality(DOMAIN active_connections),
                                               !.gone = CMDeregistered],
                                 active_connections) :
                 FwdBecomes(ch, f2, fwd)
  /\ UNCHANGED active_connections
  /\ UNCHANGED <<nBusEvents, pollFailed>>
  /\ FwdFrame

\* get_message raises RedisError (redis_manager.py lines 74-76): line 80 catches it and
\* the task sleeps (line 82)
FwdPollRaises(ch) ==
  /\ running \in {NoChannel, ch}
  /\ fwd[ch].pc = "ready"
  /\ nBusEvents < MaxBusEvents
  /\ nBusEvents' = nBusEvents + 1
  /\ pollFailed' = [pollFailed EXCEPT ![ch] = TRUE]
  /\ FwdBecomes(ch, Backoff, fwd)
  /\ UNCHANGED <<active_connections, bus>>
  /\ FwdFrame

\* the sleep of line 82 is over
FwdWake(ch) ==
  /\ running = NoChannel
  /\ fwd[ch].pc = "backoff"
  /\ fwd' = [fwd EXCEPT ![ch] = Ready]
  /\ UNCHANGED <<active_connections, bus, running>>
  /\ UNCHANGED <<nBusEvents, pollFailed>>
  /\ FwdFrame

\* send_text can return while the server has the connection, and can raise once the
\* client has gone
CanDeliver(w) == hexit[w] \notin {"returned", "raised"}

\* the send_text of line 75 returns
FwdSendReturns(ch) ==
  /\ running = NoChannel
  /\ fwd[ch].pc = "sending"
  /\ CanDeliver(fwd[ch].ws)
  /\ \E f2 \in FwdNext(fwd[ch], active_connections) : FwdBecomes(ch, f2, fwd)
  /\ UNCHANGED <<active_connections, bus>>
  /\ UNCHANGED <<nBusEvents, pollFailed>>
  /\ FwdFrame

\* the send_text of line 75 raises WebSocketDisconnect: line 77 calls disconnect, whose
\* KeyError (the websocket is registered no more) line 80 catches
FwdSendDisconnect(ch) ==
  /\ running = NoChannel
  /\ fwd[ch].pc = "sending"
  /\ Gone(fwd[ch].ws)
  /\ active_connections' = ActiveAfterDisconnect(fwd[ch].ws, fwd[ch].client)
  /\ IF CMRegistered(fwd[ch].ws, fwd[ch].client)
       THEN \E f2 \in FwdNext(FwdAfterDisconnect(fwd[ch].ws, fwd[ch].client)[ch],
                              active_connections') :
              FwdBecomes(ch, f2, FwdAfterDisconnect(fwd[ch].ws, fwd[ch].client))
       ELSE FwdBecomes(ch, Backoff, fwd)
  /\ UNCHANGED <<bus, nBusEvents, pollFailed>>
  /\ FwdFrame

\* the send_text of line 75 raises another exception: line 79 logs it
FwdSendError(ch) ==
  /\ running = NoChannel
  /\ fwd[ch].pc = "sending"
  /\ Gone(fwd[ch].ws)
  /\ \E f2 \in FwdNext(fwd[ch], active_connections) : FwdBecomes(ch, f2, fwd)
  /\ UNCHANGED <<active_connections, bus>>
  /\ UNCHANGED <<nBusEvents, pollFailed>>
  /\ FwdFrame

\* the frames clients send while the bridge is explored
BridgeFrames == {SubFrame(sym) : sym \in Symbols}

\* handle_websocket and the forwarding tasks within one reading of the clock (no
\* request is refused: every call of check_rate_limit writes the same key)
NextBridge ==
  \/ \E w \in WS : \E c \in ClientIds : HStart(w, c)
  \/ \E w \in WS : HAcceptReturns(w)
  \/ \E w \in WS : HAcceptRaises(w)
  \/ \E w \in WS : \E f \in BridgeFrames \cup {Disconnect} : HClientSend(w, f)
  \/ \E w \in WS : HReceive(w)
  \/ \E w \in WS : HReceiveSubscribeFails(w) /\ nBusEvents < BridgeBusEvents
  \/ \E w \in WS : HSendReturns(w)
  \/ \E w \in WS : HSendRaises(w)
  \/ \E w \in WS : HCancel(w)
  \/ \E ch \in Channels : Publish(ch) /\ nBusEvents < BridgeBusEvents
  \/ \E ch \in Channels : FwdPoll(ch)
  \/ \E ch \in Channels : FwdPollRaises(ch) /\ nBusEvents < BridgeBusEvents
  \/ \E ch \in Channels : FwdWake(ch)
  \/ \E ch \in Channels : FwdSendReturns(ch)
  \/ \E ch \in Channels : FwdSendDisconnect(ch)
  \/ \E ch \in Channels : FwdSendError(ch)

SpecBridge == Init /\ [][NextBridge]_vars

\* the frames clients send while the failures of the bus are explored
FwdFrames == {SubFrame("AAPL")}

\* the forwarding tasks with the bus failing and delivering, served websockets
\* subscribing and leaving
NextFwd ==
  \/ \E w \in WS : \E c \in ClientIds : HStart(w, c)
  \/ \E w \in WS : HAcceptReturns(w)
  \/ \E w \in WS : \E f \in FwdFrames \cup {Disconnect} : HClientSend(w, f)
  \/ \E w \in WS : HReceive(w)
  \/ \E w \in WS : HSendReturns(w)
  \/ \E w \in WS : HSendRaises(w)
  \/ \E ch \in Channels : Publish(ch)
  \/ \E ch \in Channels : PublishMalformed(ch)
  \/ \E ch \in Channels : FwdPoll(ch)
  \/ \E ch \in Channels : FwdPollRaises(ch)
  \/ \E ch \in Channels : FwdWake(ch)
  \/ \E ch \in Channels : FwdSendReturns(ch)
  \/ \E ch \in Channels : FwdSendDisconnect(ch)
  \/ \E ch \in Channels : FwdSendError(ch)

SpecFwd == Init /\ [][NextFwd]_vars

\* ------------------------------------------------------ the two dispatchers
\* WebSocketManager and ConnectionManager are two objects that share no state: each
\* is explored while the other has served nothing yet
WMAtRest ==
  /\ \A w \in WS : pc[w] = "idle"
  /\ bc.pc = "idle"
  /\ event_handlers = {}

CMAtRest == \A w \in WS : hpc[w] = "idle"

NextDispatch ==
  \/ CMAtRest /\ NextWM
  \/ WMAtRest /\ NextFwd

SpecDispatch == Init /\ [][NextDispatch]_vars

\* ===================================================================== claims
InABucket(w) ==
  \E ct \in DOMAIN connections : \E t \in DOMAIN connections[ct] : w \in connections[ct][t]
InAUserSet(w) == \E u \in DOMAIN user_connections : w \in user_connections[u]

\* C1: a session whose connect succeeded has, once it has exited (client disconnect,
\* exception in the body, cancellation), had exactly one deregistration take effect,
\* and its websocket is in none of connections, user_connections, connection_info.
C1_SessionDeregistersOnce ==
  \A w \in WS :
    /\ deregs[w] <= 1
    /\ (pc[w] = "done" /\ opened[w]) =>
         /\ deregs[w] = 1
         /\ ~Registered(w)
         /\ ~InABucket(w)
         /\ ~InAUserSet(w)

\* one session has ended by cancellation and another through the generic handler
C1_Witness ==
  \E w1, w2 \in WS :
    /\ pc[w1] = "done" /\ opened[w1] /\ exit[w1] = "cancelled"
    /\ pc[w2] = "done" /\ opened[w2] /\ exit[w2] = "raised" /\ closes[w2] >= 1

LiveIn(ct, t) == {w \in WS : live[w] /\ ep[w].client_type = ct /\ ep[w].topic = t}

\* C2: the bucket connections[client_type][topic] is exactly the set of websockets
\* connected under that key and not disconnected since, and a key whose set would be
\* empty is absent.
C2_BucketsExact ==
  \A ct \in DOMAIN connections :
    /\ DOMAIN connections[ct] = {t \in Topics : LiveIn(ct, t) # {}}
    /\ \A t \in DOMAIN connections[ct] : connections[ct][t] = LiveIn(ct, t)

\* two websockets were connected under one key and one of them has been disconnected
C2_Witness ==
  \E w1, w2 \in WS :
    /\ w1 # w2
    /\ ep[w1].client_type = ep[w2].client_type /\ ep[w1].topic = ep[w2].topic
    /\ live[w1]
    /\ ~live[w2] /\ deregs[w2] = 1

\* C3: a disconnect call for a websocket that is not registered changes none of
\* connections, user_connections, connection_info and does not call close.
C3_DisconnectIdempotent ==
  [][\A w \in WS :
       discOnAbsent'[w] > discOnAbsent[w] =>
         /\ UNCHANGED <<connections, connection_info, user_connections>>
         /\ discCloses'[w] = discCloses[w]]_vars

\* a websocket that was registered and deregistered has had disconnect called again
C3_Witness == \E w \in WS : opened[w] /\ deregs[w] = 1 /\ discOnAbsent[w] >= 1

\* C4: when broadcast is over, every connection of the snapshot but those whose send
\* raised has been sent the message.
C4_BroadcastIsolation ==
  (bc.call = "broadcast" /\ bc.pc \in {"returned", "raised"}) =>
     bc.snapshot \ bc.failed \subseteq bc.delivered

\* C9: when the handler of an event raises, the serve loop goes on to the next
\* receive and the connection stays registered and open.
C9_HandlerExceptionContained ==
  [][\A w \in WS :
       HandlerRaises(w) =>
         /\ pc'[w] = "receive"
         /\ application_state'[w] = application_state[w]
         /\ Registered(w) => Registered(w)']_vars

\* C10: routing an event (a JSON object) whose type has no registered handler leaves
\* the serve loop at its next receive, the registry unchanged and the transport open.
C10_UnroutableEventDropped ==
  [][\A w \in WS :
       ( /\ ReceiveFrame(w)
         /\ ep[w].loop = "portfolio"
         /\ application_state[w] = "CONNECTED"
         /\ IsDict(inbox[w])
         /\ EventTypeOf(inbox[w]) \notin event_handlers ) =>
         /\ pc'[w] = "receive"
         /\ application_state'[w] = "CONNECTED"
         /\ UNCHANGED <<connections, connection_info, user_connections, closes>>]_vars

\* the calls of client c that returned true less than a window before time t
AcceptedInWindow(c, t) == Len(SeqFilter(accepted[c], t))

\* C5: a call returns true while fewer than max_requests_per_minute calls of the
\* client have returned true within the last 60 seconds (so the first L calls of a
\* window do, and a call made once the window has passed does again), and false when
\* L have (the (L+1)th call of the window).
C5_SlidingWindow ==
  [][\A c \in RLClients :
       RLCall(c) =>
         result'[c] = (AcceptedInWindow(c, now) < max_requests_per_minute)]_vars

\* the steps of w's handle_websocket that come to the top of the serve loop
ComesToLoopTop(w) ==
  \/ HAcceptReturns(w)
  \/ HSendReturns(w)
  \/ HSleepReturns(w)
  \/ HReceive(w) /\ hin[w] \in NoReplyFrames

StillServed(w) ==
  /\ hcl[w] \in DOMAIN active_connections' /\ w \in active_connections'[hcl[w]]
  /\ hexit'[w] = None

\* C6: when check_rate_limit refuses the client, handle_websocket sends the rate limit
\* frame on the same websocket and neither closes nor deregisters it; when that send
\* returns the loop sleeps and comes back to the check; once the window has room the
\* loop goes on to receive_text, and the frame it then receives is consumed and
\* handled with the websocket still registered.
C6_RateLimitedStaysOpen ==
  [][\A w \in WS :
       /\ (ComesToLoopTop(w) /\ ~Allowed(LimitsOf(hcl[w]), now)) =>
            (hpc'[w] = "rl_send" /\ StillServed(w))
       /\ HRateLimitSendReturns(w) => (hpc'[w] = "rl_sleep" /\ StillServed(w))
       /\ (HSleepReturns(w) /\ Allowed(LimitsOf(hcl[w]), now) /\ hcs[w] = "CONNECTED") =>
            (hpc'[w] = "receive" /\ StillServed(w))
       /\ (HReceive(w) /\ refusals[w] = 1) =>
            (hin'[w] = NoFrame /\ StillServed(w))
    ]_vars

\* a client that was refused is, after the window has rolled, being answered for a
\* frame it sent
C6_Witness ==
  \E w \in WS :
    /\ refusals[w] = 1
    /\ hpc[w] = "invalid_send"
    /\ CMRegistered(w, hcl[w])
    /\ now >= WindowTicks

\* C7: a message the bus delivered on channel sentiment_updates:<S> is sent by
\* _forward_messages only to websockets that subscribed to symbol S (refuted: the task
\* sends it to every websocket of active_connections).
C7_ForwardOnlyToSubscribers ==
  [][\A ch \in Channels :
       FwdSendReturns(ch) => SymbolOf(fwd[ch].msg) \in subscribed[fwd[ch].ws]
    ]_vars

\* C8: whatever the number and the interleaving of the subscribe_to_symbol calls for
\* a symbol, the bus subscription of its channel is opened at most once and at most
\* one _forward_messages task is created for it, and every call that returns leaves
\* exactly one subscription and one task for the channel.
C8_SubscribeOncePerChannel ==
  /\ [](\A ch \in Channels :
          /\ opens[ch] <= 1
          /\ tasks[ch] <= 1
          /\ (ch \in redis_subscriptions) <=> (opens[ch] = 1 /\ tasks[ch] = 1))
  /\ [][\A w \in WS : \A sym \in Symbols :
          (HReceive(w) /\ hin[w] = SubFrame(sym)) =>
             (opens'[ChannelOf(sym)] = 1 /\ tasks'[ChannelOf(sym)] = 1)
       ]_vars

\* two websockets have both had their subscription to the same symbol acknowledged
C8_Witness ==
  \E sym \in Symbols : \E w1, w2 \in WS :
    /\ w1 # w2
    /\ subscribed[w1] = {sym} /\ subscribed[w2] = {sym}
    /\ hpc[w1] = "ack_send" /\ hpc[w2] = "ack_send"
    /\ nBusEvents = 0
    /\ tasks[ChannelOf(sym)] = 1

\* C11: a malformed frame (not JSON, JSON that is no object, or an object without a
\* type) received by a serve loop that parses client messages is dropped: the loop
\* goes on to its next receive, the registry is unchanged and the transport is not
\* closed (refuted in the portfolio loop by JSON that is no object).
C11_MalformedFrameDropped ==
  [][\A w \in WS :
       ( /\ ReceiveFrame(w)
         /\ ep[w].loop = "portfolio"
         /\ application_state[w] = "CONNECTED"
         /\ inbox[w] \in {"bad_json", "non_object", "no_type"} ) =>
         /\ pc'[w] = "receive"
         /\ application_state'[w] = "CONNECTED"
         /\ UNCHANGED <<connections, connection_info, user_connections, closes>>]_vars

\* C13: every client type the endpoints use (sentiment, trading, portfolio, combined)
\* is a recognized category: a session opened with it goes on to accept the transport
\* (refuted by combined, which is no key of connections).
C13_EndpointTypesRecognized ==
  [][\A w \in WS : \A e \in Endpoints :
       (SessionStart(w, e) /\ e.client_type \in {"sentiment", "trading", "portfolio", "combined"})
          => pc'[w] = "accept"]_vars

\* C19: close is called at most once on the transport of a connection, whichever way
\* its session ends (refuted: after an exception in the body websocket_session calls
\* close(1011) and the disconnect of its finally clause calls close again).
C19_ClosedAtMostOnce == \A w \in WS : closes[w] <= 1


\* C12: connect with a client type that is no recognized category raises before the
\* transport is accepted and leaves connections, connection_info and
\* user_connections unchanged; whatever attempts have failed, a connect with a
\* recognized type goes on to accept, and registers the websocket when accept returns.
C12_InvalidTypeRejected ==
  /\ [](DOMAIN connections = ValidClientTypes)
  /\ [][\A w \in WS : \A e \in Endpoints :
          /\ (SessionStart(w, e) /\ e.client_type \notin ValidClientTypes) =>
                /\ pc'[w] # "accept"
                /\ client_state'[w] = "CONNECTING"
                /\ ~opened'[w]
                /\ UNCHANGED <<connections, connection_info, user_connections>>
          /\ (SessionStart(w, e) /\ e.client_type \in ValidClientTypes) =>
                pc'[w] = "accept"
          /\ AcceptReturns(w) => Registered(w)'
       ]_vars

\* a connect with an unrecognized type has failed and another websocket is registered
C12_Witness ==
  \E w1, w2 \in WS :
    /\ ep[w1].client_type \notin ValidClientTypes
    /\ pc[w1] = "done" /\ ~opened[w1] /\ ~Registered(w1)
    /\ Registered(w2) /\ pc[w2] = "receive"

\* C14: a channel is flagged as subscribed (and has its forwarding task) only while
\* some registered websocket has subscribed to its symbol (refuted: nothing unsubscribes
\* or cancels the task when the last subscriber is deregistered).
C14_SubscriptionIffSubscriber ==
  \A ch \in Channels :
    (ch \in redis_subscriptions \/ fwd[ch].pc # "none") =>
       \E w \in WS : CMRegistered(w, hcl[w]) /\ SymbolOf(ch) \in subscribed[w]


\* C15: a _forward_messages task that has been created never ends; when get_message
\* raises the task goes to its sleep and lets the event loop go, after the sleep it
\* polls again, and a message it then gets from the bus is sent to a registered
\* websocket.
C15_ForwarderSurvivesBusError ==
  /\ [](\A ch \in Channels : tasks[ch] >= 1 => fwd[ch].pc # "none")
  /\ [][\A ch \in Channels :
          /\ FwdPollRaises(ch) => (fwd'[ch].pc = "backoff" /\ running' = NoChannel)
          /\ FwdWake(ch) => fwd'[ch].pc = "ready"
          /\ ( /\ pollFailed[ch] /\ FwdPoll(ch) /\ bus # <<>>
               /\ \E c \in DOMAIN active_connections : active_connections[c] # {} ) =>
                /\ fwd'[ch].pc = "sending"
                /\ fwd'[ch].msg = Head(bus)
                /\ CMRegistered(fwd'[ch].ws, fwd'[ch].client)
       ]_vars

\* a task in which get_message has raised is sending a message it got afterwards
C15_Witness ==
  \E ch \in Channels :
    /\ pollFailed[ch]
    /\ fwd[ch].pc = "sending"
    /\ CMRegistered(fwd[ch].ws, fwd[ch].client)

\* C16: a bus message whose payload does not decode as JSON is sent to no websocket
\* (refuted: _forward_messages decodes nothing and sends the payload as it is).
C16_MalformedPayloadDropped ==
  [][\A ch \in Channels : FwdSendReturns(ch) => PayloadDecodes(fwd[ch].msg)]_vars

\* C17: every message broadcast sends to a connection is a dict whose type is the
\* client type and whose data is the message the caller passed, with a timestamp,
\* whether the caller passed a dict, a str or bytes (refuted: a str or bytes message
\* goes on the wire as it is, lines 114 and 130-133).
C17_BroadcastAlwaysEnvelope ==
  [][\A w \in WS :
       (BroadcastSendOK(w) /\ bc.call = "broadcast") =>
          /\ Len(bc.wire) = 5
          /\ bc.wire[5] = "timestamp"
          /\ TypeOf(bc.wire) = bc.client_type
          /\ DataOf(bc.wire) = bc.payload]_vars

\* C18: the message send_portfolio_update(user_id, data) sends to a connection of the
\* user has type "portfolio_update" and data equal to the data passed, with a timestamp
\* (refuted: send_to_user wraps the dict once more, so the type on the wire is
\* "user_message" and its data is the portfolio_update dict).
C18_PortfolioUpdateOneEnvelope ==
  [][\A w \in WS :
       (BroadcastSendOK(w) /\ bc.call = "send_portfolio_update") =>
          /\ Len(bc.wire) = 5
          /\ bc.wire[5] = "timestamp"
          /\ TypeOf(bc.wire) = "portfolio_update"
          /\ DataOf(bc.wire) = bc.payload]_vars

\* C20: when the send to one connection of a broadcast never completes, every other
\* connection of the copied set is still served in the end: it gets the message (or
\* its own send fails), unless broadcast itself ends (refuted: the sends are awaited
\* one after the other, lines 126-133, so the connections that come after the one
\* that does not read wait for ever).
C20_SlowConsumerDoesNotStall ==
  \A w \in WS \ {SlowWS} :
    (bc.call = "broadcast" /\ bc.pc = "sending" /\ w \in bc.todo)
      ~> (w \in bc.delivered \cup bc.failed \/ bc.pc \in {"returned", "raised"})

\* C21: a check_rate_limit call for a client whose window is full returns false and
\* leaves rate_limits as it was; any other call returns true, leaves the dict of every
\* other client as it was and adds exactly one timestamp to the client's dict
\* (refuted: a call that reads the clock value an earlier call has read writes the key
\* str(now) that is already there, line 47, and returns true with no timestamp added).
C21_RateLimitFrame ==
  [][\A c \in RLClients :
       RLCall(c) =>
         IF ~Allowed(LimitsOf(c), now)
           THEN result'[c] = FALSE /\ rate_limits' = rate_limits
           ELSE /\ result'[c] = TRUE
                /\ Cardinality(rate_limits'[c] \ LimitsOf(c)) = 1
                /\ \A d \in DOMAIN rate_limits \ {c} :
                     d \in DOMAIN rate_limits' /\ rate_limits'[d] = rate_limits[d]]_vars

\* C27: whatever the times of the calls, several calls reading the same clock value
\* included, at most max_requests_per_minute calls of one client made less than 60
\* seconds apart have returned true (refuted: calls that read the same clock value
\* share one key of the dict and count once at line 43).
C27_RateCap ==
  \A c \in RLClients : AcceptedInWindow(c, now) <= max_requests_per_minute

\* C28: the serve loop runs check_rate_limit on a frame it has received, once per
\* frame and before handling it: every step of handle_websocket that calls
\* check_rate_limit is a step in which receive_text has returned a frame of the
\* client, so a slot is consumed and the rate limit frame is sent only for a received
\* frame (refuted: line 101 calls check_rate_limit at the top of the loop, before
\* the receive_text of line 111, so the first slot is consumed when accept returns
\* and no frame has been received).
C28_ReceiveThenRateLimit ==
  [][\A w \in WS :
       ComesToLoopTop(w) => (HReceive(w) /\ hin[w] # Disconnect)]_vars

\* C23: once handle_websocket has exited, by whatever path (client disconnect, error
\* of the transport, error while sending an error frame, cancellation of its task),
\* its websocket is not in active_connections[client_id] (refuted: CancelledError is
\* no Exception, so neither except clause of lines 137-141 runs and, there being no
\* finally, a cancelled task leaves its websocket registered).
C23_DeregisteredOnEveryExit ==
  \A w \in WS : hpc[w] = "done" => ~CMRegistered(w, hcl[w])

\* C24: when receive_text raises WebSocketDisconnect inside the inner try of the serve
\* loop, the exception ends the loop: handle_websocket runs its cleanup and exits in
\* that same step, the inner handlers sending nothing more on the dead socket
\* (refuted: WebSocketDisconnect is an Exception, so the inner `except Exception` of
\* line 130 catches it and awaits a send_json on the closed websocket; the loop ends
\* only if that send raises, and iterates again when it returns).
C24_DisconnectEndsLoop ==
  [][\A w \in WS :
       (HReceive(w) /\ hin[w] = Disconnect) =>
          /\ hpc'[w] = "done"
          /\ ~(hcl[w] \in DOMAIN active_connections' /\ w \in active_connections'[hcl[w]])
    ]_vars

\* C25: when the serve loop of a websocket runs its cleanup after a forwarding task has
\* already deregistered the websocket, the second disconnect(websocket, client_id)
\* returns without an error and leaves active_connections as it was, with no empty
\* bucket (refuted: line 28 calls remove on the bucket, which the defaultdict creates
\* empty when it is gone, and remove raises KeyError for a websocket that is absent).
C25_SecondDisconnectNoOp ==
  [][\A w \in WS :
       (HSendRaises(w) /\ hpc[w] # "ack_send" /\ ~CMRegistered(w, hcl[w])) =>
          /\ hexit'[w] = "returned"
          /\ active_connections' = active_connections
          /\ \A c \in DOMAIN active_connections' : active_connections'[c] # {}
    ]_vars

\* the websockets connected for user u and not disconnected since
LiveOf(u) == {w \in WS : live[w] /\ ep[w].user_id = u}

\* C22: a message whose dispatch starts after a connection was deregistered is not
\* sent to that connection, and the connections still registered are served. For
\* broadcast and send_to_user the set copied when the call begins is exactly the set
\* of connections registered under the key and not disconnected since, every send
\* goes to a connection that was not deregistered when the call began, and a call
\* that returns without a failed send has delivered to the whole set. A forwarding
\* task sends a bus message to no websocket that was deregistered when it got the
\* message, and when it comes back to get_message after its last send it has gone
\* through every bucket of active_connections that holds a websocket.
C22_NoDispatchAfterDeregistration ==
  /\ [](bc.pc = "returned" /\ bc.failed = {} => bc.delivered = bc.snapshot)
  /\ [][/\ \A w \in WS : BroadcastSendOK(w) => (w \in bc.snapshot /\ w \notin bc.gone)
        /\ \A e \in Endpoints, m \in Payloads :
             BroadcastStart(e.client_type, e.topic, m) =>
               bc'.snapshot = LiveIn(e.client_type, e.topic)
        /\ \A u \in ClientIds :
             SendPortfolioUpdate(u, <<"dict">>) => bc'.snapshot = LiveOf(u)
        /\ \A ch \in Channels :
             /\ FwdSendReturns(ch) => fwd[ch].ws \notin fwd[ch].gone
             /\ (FwdSendReturns(ch) /\ fwd'[ch].pc = "ready") =>
                  /\ \A c \in DOMAIN active_connections :
                       active_connections[c] # {} => c \in fwd[ch].vkeys
                  /\ BucketOf(fwd[ch].client) \subseteq fwd[ch].vset
       ]_vars

\* A and B were connected under one key, A has been disconnected, and a broadcast to
\* the key that began afterwards has delivered to B
C22_Witness ==
  \E a, b \in WS :
    /\ a # b
    /\ a \in bc.gone
    /\ bc.call = "broadcast"
    /\ ep[a].client_type = bc.client_type /\ ep[a].topic = bc.topic
    /\ ep[b].client_type = bc.client_type /\ ep[b].topic = bc.topic
    /\ a \notin bc.snapshot
    /\ b \in bc.delivered

\* the websockets registered after the step that the task of channel ch has not come
\* to in its two loops
Unserved(ch) ==
  {w \in WS : \E c \in DOMAIN active_connections' :
     /\ w \in active_connections'[c]
     /\ c \notin fwd[ch].vkeys \/ (c = fwd[ch].client /\ w \notin fwd[ch].vset)}

\* C26: when a send_text of _forward_messages raises, the websocket it was for is
\* deregistered and the task goes on to every other registered websocket: it leaves
\* its loops only when none is left unserved (refuted: the loops iterate over the
\* live dict and sets, lines 72-73, so the disconnect of line 77 changes the size of
\* the set being iterated and the next step of the iterator raises RuntimeError,
\* which line 80 catches: the task sleeps and the message is lost for the others).
C26_ForwardFailureIsolated ==
  [][\A ch \in Channels :
       (FwdSendDisconnect(ch) /\ CMRegistered(fwd[ch].ws, fwd[ch].client)) =>
          /\ ~( /\ fwd[ch].client \in DOMAIN active_connections'
                /\ fwd[ch].ws \in active_connections'[fwd[ch].client] )
          /\ fwd'[ch].pc # "sending" => Unserved(ch) = {}
    ]_vars

\* w is in connection_info, in the bucket connection_info names and, when it has a
\* user_id, in the set of that user
FullyRegistered(w) ==
  /\ Registered(w)
  /\ LET info == connection_info[w]
     IN /\ info.client_type \in DOMAIN connections
        /\ info.topic \in DOMAIN connections[info.client_type]
        /\ w \in connections[info.client_type][info.topic]
        /\ info.user_id # None =>
             (info.user_id \in DOMAIN user_connections /\ w \in user_connections[info.user_id])

Absent(w) == ~Registered(w) /\ ~InABucket(w) /\ ~InAUserSet(w)

\* C29: whenever a task is suspended in an await of connect, disconnect, broadcast or
\* send_to_user (the states between the steps), each websocket is either in
\* connection_info, in its bucket and in the set of its user, or in none of the three.
C29_RegistryAtomic == \A w \in WS : FullyRegistered(w) \/ Absent(w)

\* while a dispatch is suspended in a send, one websocket is registered with a user_id
\* and the disconnect of another, fully removed, is suspended in close()
C29_Witness ==
  \E w1, w2 \in WS :
    /\ bc.pc = "sending"
    /\ FullyRegistered(w1) /\ connection_info[w1].user_id # None
    /\ pc[w2] = "disc_close" /\ opened[w2] /\ Absent(w2)

\* C30: after any sequence of connect and disconnect calls, a repeated connect of an
\* accepted websocket included, a websocket is in a bucket only under the client_type
\* and topic that connection_info records for it, and in the set of a user only when
\* connection_info records that user_id: it is in one bucket at most, and the
\* disconnect that finds it registered leaves it in no index.
C30_NoDanglingNoDuplicate ==
  /\ [](\A w \in WS :
          /\ \A ct \in DOMAIN connections : \A t \in DOMAIN connections[ct] :
               w \in connections[ct][t] =>
                 /\ Registered(w)
                 /\ connection_info[w].client_type = ct
                 /\ connection_info[w].topic = t
          /\ \A u \in DOMAIN user_connections :
               w \in user_connections[u] =>
                 (Registered(w) /\ connection_info[w].user_id = u))
  /\ [][\A w \in WS :
          deregs'[w] > deregs[w] =>
            /\ w \notin DOMAIN connection_info'
            /\ \A ct \in DOMAIN connections' : \A t \in DOMAIN connections'[ct] :
                 w \notin connections'[ct][t]
            /\ \A u \in DOMAIN user_connections' : w \notin user_connections'[u]]_vars

\* connect was called again for two registered websockets; one is still registered and
\* the other has been removed from every index by its one disconnect
C30_Witness ==
  \E w1, w2 \in WS :
    /\ reconnects[w1] = 1 /\ FullyRegistered(w1)
    /\ reconnects[w2] = 1 /\ deregs[w2] = 1 /\ Absent(w2)

====
